---- MODULE Spec2Model ----
(***************************************************************************)
(* State-machine model of the silent-crawler engine (src/src/main.rs).     *)
(* Strings are sequences of one-character strings, so that prefix, suffix, *)
(* search and ordering are computed as the code computes them.             *)
(***************************************************************************)
EXTENDS Integers, Sequences, FiniteSets, Bags, TLC

(* ------------------------------------------------------------------ *)
(* Strings                                                             *)
(* ------------------------------------------------------------------ *)
\* F applied to the value of v, computed once
Bind(v, F(_)) == CHOOSE r \in { F(x) : x \in {v} } : TRUE

LowerCase == <<"a","b","c","d","e","f","g","h","i","j","k","l","m",
               "n","o","p","q","r","s","t","u","v","w","x","y","z">>
UpperCase == <<"A","B","C","D","E","F","G","H","I","J","K","L","M",
               "N","O","P","Q","R","S","T","U","V","W","X","Y","Z">>

IndexIn(seq, c) ==
    IF \E i \in 1..Len(seq) : seq[i] = c
    THEN CHOOSE i \in 1..Len(seq) : seq[i] = c
    ELSE 0

\* Byte value of a character (the order String::cmp sorts by).
Ascii(c) ==
    CASE IndexIn(LowerCase, c) > 0 -> 96 + IndexIn(LowerCase, c)
      [] IndexIn(UpperCase, c) > 0 -> 64 + IndexIn(UpperCase, c)
      [] c = " " -> 32
      [] c = "#" -> 35
      [] c = "*" -> 42
      [] c = "-" -> 45
      [] c = "." -> 46
      [] c = "/" -> 47
      [] c = ":" -> 58
      [] c = "?" -> 63
      [] OTHER -> 127

\* char::to_lowercase on the ASCII range
LowerChar(c) ==
    IF IndexIn(UpperCase, c) > 0 THEN LowerCase[IndexIn(UpperCase, c)] ELSE c

to_lowercase(s) ==
    Bind(s, LAMBDA v : [i \in 1..Len(v) |-> Bind(v[i], LAMBDA c : LowerChar(c))])

starts_with(s, p) == Len(p) <= Len(s) /\ SubSeq(s, 1, Len(p)) = p

ends_with(s, p) == Len(p) <= Len(s) /\ SubSeq(s, Len(s) - Len(p) + 1, Len(s)) = p

\* str::find for a set of characters: first index holding one of them, 0 if none
find(s, cs) ==
    Bind(s, LAMBDA v :
        IF \E i \in 1..Len(v) : v[i] \in cs
        THEN CHOOSE i \in 1..Len(v) : v[i] \in cs /\ \A j \in 1..(i - 1) : v[j] \notin cs
        ELSE 0)

\* str::rfind for one character: last index holding it, 0 if none
rfind(s, c) ==
    Bind(s, LAMBDA v :
        IF \E i \in 1..Len(v) : v[i] = c
        THEN CHOOSE i \in 1..Len(v) : v[i] = c /\ \A j \in (i + 1)..Len(v) : v[j] # c
        ELSE 0)

contains(s, c) == \E i \in 1..Len(s) : s[i] = c

\* str::trim (ASCII space only in this alphabet)
RECURSIVE trim_start(_)
trim_start(s) ==
    Bind(s, LAMBDA v : IF v # <<>> /\ Head(v) = " " THEN trim_start(Tail(v)) ELSE v)

RECURSIVE trim_end(_)
trim_end(s) ==
    Bind(s, LAMBDA v :
        IF v # <<>> /\ v[Len(v)] = " " THEN trim_end(SubSeq(v, 1, Len(v) - 1)) ELSE v)

trim(s) == trim_end(trim_start(s))

\* s.split(c).nth(1): the piece between the first and the second c
split_nth1(s, c) ==
    Bind(s, LAMBDA v :
    Bind(find(v, {c}), LAMBDA i :
        IF i = 0 THEN [some |-> FALSE]
        ELSE Bind(SubSeq(v, i + 1, Len(v)), LAMBDA rest :
             Bind(find(rest, {c}), LAMBDA j :
                 [some |-> TRUE,
                  val |-> IF j = 0 THEN rest ELSE SubSeq(rest, 1, j - 1)]))))

\* path.split('/').last(): what follows the last '/'
split_last(s) == Bind(s, LAMBDA v : SubSeq(v, rfind(v, "/") + 1, Len(v)))

\* lexicographic byte order of String
RECURSIVE StrLess(_, _)
StrLess(a, b) ==
    Bind(<<a, b>>, LAMBDA p :
        IF p[1] = <<>> THEN p[2] # <<>>
        ELSE IF p[2] = <<>> THEN FALSE
        ELSE IF Head(p[1]) = Head(p[2]) THEN StrLess(Tail(p[1]), Tail(p[2]))
        ELSE Ascii(Head(p[1])) < Ascii(Head(p[2])))

\* collect() followed by a sort that puts the greatest string first
RECURSIVE sort_descending(_)
sort_descending(S) ==
    Bind(S, LAMBDA T :
        IF T = {} THEN <<>>
        ELSE Bind(CHOOSE x \in T : \A y \in T \ {x} : StrLess(y, x),
                  LAMBDA m : <<m>> \o sort_descending(T \ {m})))

\* collect() of a HashSet followed by Vec::sort
RECURSIVE sort(_)
sort(S) ==
    Bind(S, LAMBDA T :
        IF T = {} THEN <<>>
        ELSE Bind(CHOOSE x \in T : \A y \in T \ {x} : StrLess(x, y),
                  LAMBDA m : <<m>> \o sort(T \ {m})))

None == [some |-> FALSE]
Some(v) == [some |-> TRUE, val |-> v]

(* ------------------------------------------------------------------ *)
(* URL parsing (url::Url), for the http/https URLs of the page graph:  *)
(* scheme "://" host [path] ["?" query] ["#" fragment], no port, no    *)
(* userinfo, no dot segments, no character that needs percent-encoding *)
(* ------------------------------------------------------------------ *)
Http == <<"h","t","t","p",":","/","/">>
Https == <<"h","t","t","p","s",":","/","/">>

UrlErr == [ok |-> FALSE]

\* splits "path?query#fragment" into its three parts
SplitRef(r) ==
    Bind(r, LAMBDA v :
    Bind(find(v, {"#"}), LAMBDA h :
    Bind(IF h = 0 THEN v ELSE SubSeq(v, 1, h - 1), LAMBDA noFrag :
    Bind(find(noFrag, {"?"}), LAMBDA q :
        [path |-> IF q = 0 THEN noFrag ELSE SubSeq(noFrag, 1, q - 1),
         query |-> IF q = 0 THEN None ELSE Some(SubSeq(noFrag, q + 1, Len(noFrag))),
         fragment |-> IF h = 0 THEN None ELSE Some(SubSeq(v, h + 1, Len(v)))]))))

\* the scheme prefix of an http or https URL, empty for anything else
SchemeOf(s) ==
    IF starts_with(s, Http) THEN Http
    ELSE IF starts_with(s, Https) THEN Https
    ELSE <<>>

\* Url::parse, computed on the characters of s
Url_parse(s) ==
    Bind(s, LAMBDA v :
    Bind(SchemeOf(v), LAMBDA scheme :
        IF scheme = <<>> THEN UrlErr        \* relative URL without a base
        ELSE
          Bind(SubSeq(v, Len(scheme) + 1, Len(v)), LAMBDA rest :
          Bind(find(rest, {"/", "?", "#"}), LAMBDA e :
          Bind(IF e = 0 THEN rest ELSE SubSeq(rest, 1, e - 1), LAMBDA host :
          Bind(SplitRef(IF e = 0 THEN <<>> ELSE SubSeq(rest, e, Len(rest))), LAMBDA ref :
              IF host = <<>> THEN UrlErr     \* empty host
              ELSE [ok |-> TRUE,
                    scheme |-> scheme,
                    host |-> to_lowercase(host),
                    path |-> IF ref.path = <<>> THEN <<"/">> ELSE ref.path,
                    query |-> ref.query,
                    fragment |-> ref.fragment]))))))

\* Url::to_string
UrlToString(u) ==
    u.scheme \o u.host \o u.path
      \o (IF u.query.some THEN <<"?">> \o u.query.val ELSE <<>>)
      \o (IF u.fragment.some THEN <<"#">> \o u.fragment.val ELSE <<>>)

\* Url::join
UrlJoin(base_url_, href_) ==
    Bind(<<base_url_, href_>>, LAMBDA p :
    Bind(p[1], LAMBDA base :
    Bind(p[2], LAMBDA href :
        IF starts_with(href, Http) \/ starts_with(href, Https) THEN Url_parse(href)
        ELSE IF href = <<>> THEN [base EXCEPT !.fragment = None]
        ELSE Bind(SplitRef(href), LAMBDA ref :
             IF Head(href) = "#" THEN [base EXCEPT !.fragment = ref.fragment]
             ELSE IF Head(href) = "?"
                  THEN [base EXCEPT !.query = ref.query, !.fragment = ref.fragment]
             ELSE IF Head(href) = "/"
                  THEN [base EXCEPT !.path = ref.path, !.query = ref.query,
                                    !.fragment = ref.fragment]
             ELSE [base EXCEPT
                      !.path = SubSeq(base.path, 1, rfind(base.path, "/")) \o ref.path,
                      !.query = ref.query, !.fragment = ref.fragment]))))

(* ------------------------------------------------------------------ *)
(* Bounds of the model and the environment it crawls                   *)
(* ------------------------------------------------------------------ *)
MaxDepthArg == 2          \* --depth ranges over 0..MaxDepthArg
MaxConcurrencyArg == 2    \* --concurrency ranges over 0..MaxConcurrencyArg

MaxPathLen == 4           \* the paths of the direct calls have at most MaxPathLen characters

\* the url argument: no scheme, a URL with a directory, a URL with no host
SeedArgs == { <<"e",".","c">>, <<"h","t","t","p",":","/","/","e",".","c","/","d","/","x",".","h">>, <<"h","t","t","p",":","/","/">> }

\* the pages of the site, as <<host, path>>
Pages == { <<<<"e",".","c">>, <<"/">>>>, <<<<"e",".","c">>, <<"/","a",".","h">>>>,
           <<<<"b",".","e",".","c">>, <<"/","p","/">>>>, <<<<"e",".","c">>, <<"/","d","/","x",".","h">>>> }

\* the href attribute values of the anchors of a page (scraper's a[href])
Hrefs(page) ==
    CASE page = <<<<"e",".","c">>, <<"/">>>> ->
           { <<"/","a",".","h">>, <<"h","t","t","p",":","/","/","b",".","e",".","c","/","p">>, <<"h","t","t","p",":","/","/","o",".","c","/","x">>,
             <<"h","t","t","p",":","/","/","x","e",".","c","/">>, <<"j","a","v","a","s","c","r","i","p","t",":","v">> }
      [] page = <<<<"e",".","c">>, <<"/","a",".","h">>>> -> { <<"/","d","/","x",".","h","#","f">>, <<"m","a","i","l","t","o",":","m">> }
      [] page = <<<<"b",".","e",".","c">>, <<"/","p","/">>>> -> { <<"h","t","t","p",":","/","/","e",".","c","/","d","/","x",".","h">>, <<"#","t">> }
      [] page = <<<<"e",".","c">>, <<"/","d","/","x",".","h">>>> -> { <<"/">>, <<"t","e","l",":","1">>, <<"/","Z",".","h">> }
      [] page = <<<<"e","x","a","m","p","l","e",".","c","o","m">>, <<"/">>>> ->
           { <<"/","a","b","o","u","t",".","h","t","m","l">>, <<"h","t","t","p",":","/","/","b","l","o","g",".","e","x","a","m","p","l","e",".","c","o","m","/","p","o","s","t">>,
             <<"j","a","v","a","s","c","r","i","p","t",":","v","o","i","d","(","0",")">>, <<"h","t","t","p",":","/","/","o","t","h","e","r",".","c","o","m","/","x">> }
      [] page = <<<<"e","x","a","m","p","l","e",".","c","o","m">>, <<"/","a","b","o","u","t",".","h","t","m","l">>>> -> { <<"/","d","e","e","p",".","h","t","m","l">> }
      [] OTHER -> {}

\* the end-to-end scenario: its url argument and the pages its server answers as html
ScenarioSeed == <<"h","t","t","p",":","/","/","e","x","a","m","p","l","e",".","c","o","m">>
ScenarioPages == { <<<<"e","x","a","m","p","l","e",".","c","o","m">>, <<"/">>>>, <<<<"e","x","a","m","p","l","e",".","c","o","m">>, <<"/","a","b","o","u","t",".","h","t","m","l">>>> }
ScenarioDepth == 1
ScenarioConcurrency == 10

\* bodies a server may send for /robots.txt, as lines
RobotsTexts == { << <<"D","i","s","a","l","l","o","w",":"," ","/","a">> >>,
                 << <<"U","s","e","r","-","a","g","e","n","t",":"," ","*">>, <<" ","d","i","s","a","l","l","o","w",":"," ","/","D"," ">>, <<"A","l","l","o","w",":"," ","/">> >>,
                 << <<"D","i","s","a","l","l","o","w",":">>, <<"D","i","s","a","l","l","o","w",":"," ","/">> >> }

\* outcomes of the robots.txt request
RobotsResponses ==
    { [kind |-> "err", text |-> <<>>], [kind |-> "body_err", text |-> <<>>],
      [kind |-> "status", text |-> << <<"D","i","s","a","l","l","o","w",":"," ","/">> >>] }
      \cup { [kind |-> "ok", text |-> t] : t \in RobotsTexts }

VARIABLES
    arg_url,          \* Args.url
    max_depth,        \* SilentCrawler.max_depth
    concurrency,      \* SilentCrawler.concurrency
    respect_robots,   \* SilentCrawler.respect_robots
    html_pages,       \* environment: the pages answered with success and text/html
    base_url,         \* SilentCrawler.base_url
    base_domain,      \* SilentCrawler.base_domain
    disallowed_paths, \* SilentCrawler.disallowed_paths
    visited_urls,     \* SilentCrawler.visited_urls
    directories,      \* SilentCrawler.directories
    subdomains,       \* SilentCrawler.subdomains
    pc,               \* position of main / crawl_concurrent
    ready,            \* FuturesUnordered: ready-to-run queue (FIFO) of its futures
    waiting,          \* FuturesUnordered: futures suspended in sleep or in the fetch
    next_urls,        \* links of the completed page still to iterate in the for loop
    results,          \* the Results crawl returns
    started,          \* history: bag of the urls process_url began to run for
    robots_outcome,   \* history: kind of the robots.txt response
    cur_chain,        \* history: number of links from the seed to the page being expanded
    throttled,        \* history: eligible links left behind by the break of the for loop
    prev,             \* results of an earlier run with the same arguments
    held,             \* the MutexGuards alive, as <<holder, lock>>
    call,             \* a direct call of one helper: the function and its arguments
    ret               \* what that call returned

vars == << arg_url, max_depth, concurrency, respect_robots, html_pages, base_url,
           base_domain, disallowed_paths, visited_urls, directories, subdomains,
           pc, ready, waiting, next_urls, results, started, robots_outcome,
           cur_chain, throttled, prev, held, call, ret >>

\* the variables of the direct calls
unit == << call, ret >>

args == << arg_url, max_depth, concurrency, respect_robots, html_pages >>

(* ------------------------------------------------------------------ *)
(* Pure helpers of SilentCrawler                                        *)
(* ------------------------------------------------------------------ *)
\* normalize_url that appends "/" without looking at the end of the string
normalize_url_always_slash(url, source_url) ==
    Bind(Url_parse(source_url), LAMBDA base :
        IF ~base.ok THEN None
        ELSE Bind(UrlJoin(base, url), LAMBDA absolute_url :
             IF ~absolute_url.ok THEN None
             ELSE Bind(UrlToString(absolute_url), LAMBDA full :
                  Bind(find(full, {"#"}), LAMBDA pos :
                  Bind(IF pos = 0 THEN full ELSE SubSeq(full, 1, pos - 1), LAMBDA cut :
                  Bind(absolute_url.path, LAMBDA path :
                      Some(IF /\ path # <<>>
                              /\ ~contains(split_last(path), ".")
                           THEN cut \o <<"/">>
                           ELSE cut)))))))

\* Result<String, ParseError> as an option
normalize_url(url, source_url) ==
    Bind(Url_parse(source_url), LAMBDA base :
        IF ~base.ok THEN None
        ELSE Bind(UrlJoin(base, url), LAMBDA absolute_url :
             IF ~absolute_url.ok THEN None
             ELSE Bind(UrlToString(absolute_url), LAMBDA full :
                  Bind(find(full, {"#"}), LAMBDA pos :
                  Bind(IF pos = 0 THEN full ELSE SubSeq(full, 1, pos - 1), LAMBDA cut :
                  Bind(absolute_url.path, LAMBDA path :
                      Some(IF /\ path # <<>>
                              /\ ~contains(split_last(path), ".")
                              /\ ~ends_with(cut, <<"/">>)
                           THEN cut \o <<"/">>
                           ELSE cut)))))))

\* base_url as new() builds it from the url argument
with_scheme(url) ==
    IF ~starts_with(url, Http) /\ ~starts_with(url, Https) THEN Http \o url ELSE url

\* the link types extract_links skips
skipped(href) ==
    \/ starts_with(href, <<"j","a","v","a","s","c","r","i","p","t",":">>)
    \/ starts_with(href, <<"m","a","i","l","t","o",":">>)
    \/ starts_with(href, <<"t","e","l",":">>)
    \/ starts_with(href, <<"#">>)

\* the hrefs of the site that extract_links normalizes
LinkHrefs ==
    { href \in UNION { Hrefs(p) : p \in Pages \cup ScenarioPages } : ~skipped(href) }

\* the URL strings a page can be fetched under
SourceUrls ==
    { with_scheme(a) : a \in SeedArgs \cup {ScenarioSeed} }
      \cup { Http \o p[1] \o p[2] : p \in Pages \cup ScenarioPages }

\* normalize_url tabulated over the links of the site (evaluated once)
Normalized ==
    [source_url \in SourceUrls |-> [url \in LinkHrefs |-> normalize_url(url, source_url)]]

\* the strings of at most n characters of the alphabet cs
StringsUpTo(n, cs) == UNION { [1..k -> cs] : k \in 0..n }

\* a path has a segment "." or "..", which Url::parse would remove
has_dot_segment(p) ==
    \E i \in 1..Len(p) : \E j \in i..Len(p) :
        /\ p[i] = "/"
        /\ j = Len(p) \/ p[j + 1] = "/"
        /\ SubSeq(p, i + 1, j) \in { <<".">>, <<".",".">> }

\* the paths of the direct calls: empty or rooted, short, plus the documented ones
UnitPaths ==
    { p \in StringsUpTo(MaxPathLen, {"/", "a", "."}) :
         (p = <<>> \/ Head(p) = "/") /\ ~has_dot_segment(p) }
      \cup { <<"/","a","/","b","/","c",".","h","t","m","l">>, <<"/","a","/","b","/">> }

\* the URL strings of the direct calls of extract_directory
DirectoryUrls == { <<"h","t","t","p",":","/","/","e",".","c">> \o p : p \in UnitPaths }

\* the seed hosts of the direct calls
UnitDomains == { <<"e",".","c">>, <<"e","x","a","m","p","l","e",".","c","o","m">> }

\* the hosts of the direct calls of extract_subdomain: the seed hosts, hosts
\* below them, hosts that only end in their letters, hosts elsewhere
UnitHosts ==
    UnitDomains \cup { <<"b",".","e",".","c">>, <<"a",".","b",".","e",".","c">>, <<"x","e",".","c">>, <<"o",".","c">>, <<"c">>, <<"e",".","c",".","o">>,
                       <<"b","l","o","g",".","e","x","a","m","p","l","e",".","c","o","m">>, <<"e",".","c",".","e","x","a","m","p","l","e",".","c","o","m">>, <<"c","o","m">> }

SubdomainUrls == { Http \o h \o <<"/","x">> : h \in UnitHosts }

\* the URL strings of the model: page addresses, normalized links, probes
UrlStrings ==
    SourceUrls
      \cup DirectoryUrls
      \cup SubdomainUrls
      \cup { Normalized[s][h].val : s \in { x \in SourceUrls : Url_parse(x).ok },
                                    h \in LinkHrefs }
      \cup { <<"h","t","t","p",":","/","/","e",".","c","/","a",".","h","?","q">>, <<"h","t","t","p",":","/","/","e",".","c","/","d","/">> }

\* Url::parse tabulated over the URL strings of the model (evaluated once)
UrlParsed == [s \in UrlStrings |-> Url_parse(s)]

UrlParse(s) == UrlParsed[s]

\* the path a line of robots.txt disallows, none for any other line
disallow_line(raw) ==
    Bind(to_lowercase(trim(raw)), LAMBDA line :
        IF ~starts_with(line, <<"d","i","s","a","l","l","o","w",":">>) THEN None
        ELSE Bind(split_nth1(line, ":"), LAMBDA part :
             IF ~part.some THEN None
             ELSE Bind(trim(part.val), LAMBDA path :
                  IF path # <<>> THEN Some(path) ELSE None)))

\* the body of parse_robots_txt's for loop: the paths the text disallows
disallow_lines(text) ==
    Bind({ disallow_line(text[i]) : i \in 1..Len(text) }, LAMBDA found :
        { f.val : f \in { g \in found : g.some } })

\* parse_robots_txt without the is_success test: an error page is parsed too
parse_robots_txt_any_status(resp) ==
    IF resp.kind \in {"ok", "status"} THEN disallow_lines(resp.text) ELSE {}

\* what parse_robots_txt leaves in disallowed_paths for a response
parse_robots_txt(resp) ==
    IF resp.kind = "ok" THEN disallow_lines(resp.text) ELSE {}

\* parse_robots_txt tabulated over the responses (evaluated once)
RobotsParsed == [resp \in RobotsResponses |-> parse_robots_txt(resp)]

\* is_allowed comparing whole paths instead of prefixes
is_allowed_exact(url) ==
    IF ~respect_robots THEN TRUE
    ELSE LET parsed_url == UrlParse(url) IN
         IF parsed_url.ok
         THEN ~\E disallowed \in disallowed_paths : parsed_url.path = disallowed
         ELSE TRUE

is_allowed(url) ==
    IF ~respect_robots THEN TRUE
    ELSE LET parsed_url == UrlParse(url) IN
         IF parsed_url.ok
         THEN ~\E disallowed \in disallowed_paths :
                  starts_with(parsed_url.path, disallowed)
         ELSE TRUE

\* is_same_domain with a suffix test that forgets the dot
is_same_domain_no_dot(url) ==
    LET parsed_url == UrlParse(url) IN
    IF parsed_url.ok
    THEN \/ parsed_url.host = base_domain
         \/ ends_with(parsed_url.host, base_domain)
    ELSE FALSE

is_same_domain(url) ==
    LET parsed_url == UrlParse(url) IN
    IF parsed_url.ok
    THEN \/ parsed_url.host = base_domain
         \/ ends_with(parsed_url.host, <<".">> \o base_domain)
    ELSE FALSE

extract_links(html_content, source_url) ==
    LET kept == { href \in Hrefs(html_content) : ~skipped(href) }
        ok == { href \in kept : /\ Normalized[source_url][href].some
                                /\ is_same_domain(Normalized[source_url][href].val) }
    IN { Normalized[source_url][href].val : href \in ok }

\* extract_subdomain that cuts the seed host but leaves the dot before it
extract_subdomain_keeps_dot(url) ==
    LET parsed_url == UrlParse(url) IN
    IF ~parsed_url.ok THEN None
    ELSE LET domain == parsed_url.host IN
         IF domain = base_domain THEN None
         ELSE IF ends_with(domain, <<".">> \o base_domain)
              THEN Some(SubSeq(domain, 1, Len(domain) - Len(base_domain)))
              ELSE None

extract_subdomain(url) ==
    LET parsed_url == UrlParse(url) IN
    IF ~parsed_url.ok THEN None
    ELSE LET domain == parsed_url.host IN
         IF domain = base_domain THEN None
         ELSE IF ends_with(domain, <<".">> \o base_domain)
              THEN Some(SubSeq(domain, 1, Len(domain) - Len(base_domain) - 1))
              ELSE None

\* extract_directory without the test on the leading slash
extract_directory_any_slash(url) ==
    LET parsed_url == UrlParse(url) IN
    IF ~parsed_url.ok THEN None
    ELSE LET path == parsed_url.path IN
         IF path = <<>> \/ path = <<"/">> THEN None
         ELSE IF ends_with(path, <<"/">>) THEN Some(path)
         ELSE Some(SubSeq(path, 1, rfind(path, "/")))

extract_directory(url) ==
    LET parsed_url == UrlParse(url) IN
    IF ~parsed_url.ok THEN None
    ELSE LET path == parsed_url.path IN
         IF path = <<>> \/ path = <<"/">> THEN None
         ELSE IF ends_with(path, <<"/">>) THEN Some(path)
         ELSE LET last_slash_pos == rfind(path, "/") IN
              \* rfind is 1-based here: the leading slash is position 1
              IF last_slash_pos > 1 THEN Some(SubSeq(path, 1, last_slash_pos))
              ELSE None

\* fetch_url without the status and content-type tests
fetch_url_any_response(url) ==
    LET u == UrlParse(url) IN
    IF u.ok /\ <<u.host, u.path>> \in Pages
    THEN Some(<<u.host, u.path>>)
    ELSE None

\* the html body fetch_url returns: the page, when it is served as html
fetch_url(url) ==
    LET u == UrlParse(url) IN
    IF u.ok /\ <<u.host, u.path>> \in html_pages
    THEN Some(<<u.host, u.path>>)
    ELSE None

(* ------------------------------------------------------------------ *)
(* The four std::sync::Mutex of SilentCrawler and the guards of a step *)
(* ------------------------------------------------------------------ *)
lock(m) == [op |-> "lock", mutex |-> m]     \* Mutex::lock, the guard is bound
drop(m) == [op |-> "drop", mutex |-> m]     \* the guard goes out of scope

\* the code of who runs the lock operations ops in order, from the guards h:
\* a lock on a held mutex never returns, whoever holds it
RECURSIVE RunGuards(_, _, _)
RunGuards(h, who, ops) ==
    Bind(<< h, ops >>, LAMBDA p :
        IF p[2] = <<>> THEN [blocked |-> FALSE, held |-> p[1]]
        ELSE IF Head(p[2]).op = "lock"
             THEN IF \E g \in p[1] : g[2] = Head(p[2]).mutex
                  THEN [blocked |-> TRUE, held |-> p[1]]
                  ELSE RunGuards(p[1] \cup { << who, Head(p[2]).mutex >> }, who, Tail(p[2]))
             ELSE RunGuards(p[1] \ { << who, Head(p[2]).mutex >> }, who, Tail(p[2])))

\* a step runs its lock operations to the end and leaves the guards still alive
Guards(who, ops) ==
    /\ ~RunGuards(held, who, ops).blocked
    /\ held' = RunGuards(held, who, ops).held

\* parse_robots_txt: one guard around the loop over the lines of a body
parse_robots_txt_guards(resp) ==
    IF resp.kind = "ok" THEN << lock("disallowed_paths"), drop("disallowed_paths") >>
    ELSE <<>>

\* is_allowed: a guard from the lock to the return
is_allowed_guards(url) ==
    IF ~respect_robots THEN <<>>
    ELSE IF UrlParse(url).ok
         THEN << lock("disallowed_paths"), drop("disallowed_paths") >>
         ELSE <<>>

\* the admission test of crawl_concurrent: the guard of visited_urls lives to
\* the end of the block, is_allowed runs under it when the URL is not visited
admission_guards(url) ==
    << lock("visited_urls") >>
      \o (IF url \notin visited_urls THEN is_allowed_guards(url) ELSE <<>>)
      \o << drop("visited_urls") >>

\* process_url up to the sleep that keeps the guard of visited_urls alive
process_url_guards_kept(url) ==
    << lock("visited_urls") >>
      \o (IF extract_subdomain(url).some
          THEN << lock("subdomains"), drop("subdomains") >> ELSE <<>>)
      \o (IF extract_directory(url).some
          THEN << lock("directories"), drop("directories") >> ELSE <<>>)

\* process_url up to the sleep: three blocks, each with its own guard
process_url_guards(url) ==
    << lock("visited_urls"), drop("visited_urls") >>
      \o (IF extract_subdomain(url).some
          THEN << lock("subdomains"), drop("subdomains") >> ELSE <<>>)
      \o (IF extract_directory(url).some
          THEN << lock("directories"), drop("directories") >> ELSE <<>>)

\* crawl after crawl_concurrent: three guards alive together up to the return
crawl_guards ==
    << lock("visited_urls"), lock("directories"), lock("subdomains"),
       drop("subdomains"), drop("directories"), drop("visited_urls") >>

(* ------------------------------------------------------------------ *)
(* State machine                                                       *)
(* ------------------------------------------------------------------ *)
CrawlDepth == 0    \* the depth crawl passes to crawl_concurrent

\* FuturesUnordered::len
queue_len == Len(ready) + BagCardinality(waiting)

\* the future process_url(url, depth) as pushed, not yet polled
Task(url, depth, chain) == [url |-> url, st |-> "new", depth |-> depth, chain |-> chain]

\* the arguments and the site of the end-to-end scenario
Scenario ==
    /\ arg_url = ScenarioSeed
    /\ max_depth = ScenarioDepth
    /\ concurrency = ScenarioConcurrency
    /\ respect_robots = FALSE
    /\ html_pages = ScenarioPages

Init ==
    /\ \/ /\ arg_url \in SeedArgs
          /\ max_depth \in 0..MaxDepthArg
          /\ concurrency \in 0..MaxConcurrencyArg
          /\ respect_robots \in BOOLEAN
          /\ html_pages \in SUBSET Pages
       \/ Scenario
    /\ base_url = <<>>
    /\ base_domain = <<>>
    /\ disallowed_paths = {}
    /\ visited_urls = {}
    /\ directories = {}
    /\ subdomains = {}
    /\ pc = "start"
    /\ ready = <<>>
    /\ waiting = EmptyBag
    /\ next_urls = {}
    /\ results = None
    /\ started = EmptyBag
    /\ robots_outcome = "none"
    /\ cur_chain = 0
    /\ throttled = {}
    /\ prev = None
    /\ held = {}
    /\ call = None
    /\ ret = None

\* SilentCrawler::new up to the robots.txt request
New ==
    /\ pc = "start"
    /\ LET url == with_scheme(arg_url)
           parsed_url == UrlParse(url)
       IN IF ~parsed_url.ok
          THEN /\ pc' = "failed"
               /\ UNCHANGED << base_url, base_domain >>
          ELSE /\ base_url' = url
               /\ base_domain' = parsed_url.host
               /\ pc' = IF respect_robots THEN "robots" ELSE "crawl"
    /\ UNCHANGED << held, unit, args, disallowed_paths, visited_urls, directories, subdomains,
                    ready, waiting, next_urls, results, started, robots_outcome,
                    cur_chain, throttled, prev >>

\* SilentCrawler::parse_robots_txt, for each response of the server
ParseRobots ==
    /\ pc = "robots"
    /\ \E resp \in RobotsResponses :
          /\ disallowed_paths' = disallowed_paths \cup RobotsParsed[resp]
          /\ robots_outcome' = resp.kind
          /\ Guards("dispatcher", parse_robots_txt_guards(resp))
    /\ pc' = "crawl"
    /\ UNCHANGED << unit, args, base_url, base_domain, visited_urls, directories,
                    subdomains, ready, waiting, next_urls, results, started,
                    cur_chain, throttled, prev >>

\* crawl calls crawl_concurrent(base_url, 0): the depth test and the seed's push
CrawlStart ==
    /\ pc = "crawl"
    /\ IF CrawlDepth > max_depth
       THEN /\ pc' = "return"
            /\ UNCHANGED << ready, held >>
       ELSE /\ pc' = "next"
            /\ ready' = IF base_url \notin visited_urls /\ is_allowed(base_url)
                        THEN Append(ready, Task(base_url, CrawlDepth, 0))
                        ELSE ready
            /\ Guards("dispatcher", admission_guards(base_url))
    /\ UNCHANGED << unit, args, base_url, base_domain, disallowed_paths, visited_urls,
                    directories, subdomains, waiting, next_urls, results, started,
                    robots_outcome, cur_chain, throttled, prev >>

\* a dispatcher that keeps waiting on an empty queue
NextNone_waits ==
    /\ pc = "return"
    /\ results' = Some([urls |-> sort(visited_urls),
                        directories |-> sort(directories),
                        subdomains |-> sort(subdomains)])
    /\ pc' = "done"
    /\ Guards("dispatcher", crawl_guards)
    /\ UNCHANGED << unit, args, base_url, base_domain, disallowed_paths, visited_urls,
                    directories, subdomains, ready, waiting, next_urls, started,
                    robots_outcome, cur_chain, throttled, prev >>

\* queue.next() yields None on an empty queue: the loop ends and crawl sorts the sets
NextNone ==
    /\ pc \in {"next", "return"}
    /\ pc = "next" => queue_len = 0
    /\ results' = Some([urls |-> sort(visited_urls),
                        directories |-> sort(directories),
                        subdomains |-> sort(subdomains)])
    /\ pc' = "done"
    /\ Guards("dispatcher", crawl_guards)
    /\ UNCHANGED << unit, args, base_url, base_domain, disallowed_paths, visited_urls,
                    directories, subdomains, ready, waiting, next_urls, started,
                    robots_outcome, cur_chain, throttled, prev >>

\* a first poll that inserts the URL and leaves the other two sets for later
PollNew_visited_only ==
    /\ pc = "next"
    /\ ready # <<>>
    /\ Head(ready).st = "new"
    /\ LET t == Head(ready) IN
          /\ visited_urls' = visited_urls \cup {t.url}
          /\ ready' = Tail(ready)
          /\ waiting' = waiting (+) SetToBag({[t EXCEPT !.st = "sleeping"]})
          /\ started' = started (+) SetToBag({t.url})
          /\ Guards(t.url, process_url_guards(t.url))
    /\ UNCHANGED << unit, args, base_url, base_domain, disallowed_paths, pc, next_urls,
                    results, robots_outcome, cur_chain, throttled, prev,
                    subdomains, directories >>

\* first poll of a process_url future: runs up to the sleep
PollNew ==
    /\ pc = "next"
    /\ ready # <<>>
    /\ Head(ready).st = "new"
    /\ LET t == Head(ready) IN
          /\ visited_urls' = visited_urls \cup {t.url}
          /\ subdomains' = IF extract_subdomain(t.url).some
                           THEN subdomains \cup {extract_subdomain(t.url).val}
                           ELSE subdomains
          /\ directories' = IF extract_directory(t.url).some
                            THEN directories \cup {extract_directory(t.url).val}
                            ELSE directories
          /\ ready' = Tail(ready)
          /\ waiting' = waiting (+) SetToBag({[t EXCEPT !.st = "sleeping"]})
          /\ started' = started (+) SetToBag({t.url})
          /\ Guards(t.url, process_url_guards(t.url))
    /\ UNCHANGED << unit, args, base_url, base_domain, disallowed_paths, pc, next_urls,
                    results, robots_outcome, cur_chain, throttled, prev >>

\* poll after the sleep: process_url sends the request and suspends in fetch_url
PollDelayed ==
    /\ pc = "next"
    /\ ready # <<>>
    /\ Head(ready).st = "delayed"
    /\ ready' = Tail(ready)
    /\ waiting' = waiting (+) SetToBag({[Head(ready) EXCEPT !.st = "fetching"]})
    /\ UNCHANGED << held, unit, args, base_url, base_domain, disallowed_paths, visited_urls,
                    directories, subdomains, pc, next_urls, results, started,
                    robots_outcome, cur_chain, throttled, prev >>

\* a last poll that takes the URL of the finished future out of visited_urls
PollFetched_forgets ==
    /\ pc = "next"
    /\ ready # <<>>
    /\ Head(ready).st = "fetched"
    /\ LET t == Head(ready)
           html_content == fetch_url(t.url)
           found == IF html_content.some
                    THEN extract_links(html_content.val, t.url)
                    ELSE {}
       IN /\ ready' = Tail(ready)
          /\ visited_urls' = visited_urls \ {t.url}
          /\ IF CrawlDepth < max_depth /\ found # {}
             THEN /\ pc' = "loop"
                  /\ next_urls' = found
                  /\ cur_chain' = t.chain
             ELSE /\ pc' = "next"
                  /\ next_urls' = {}
                  /\ cur_chain' = 0
    /\ UNCHANGED << held, unit, args, base_url, base_domain, disallowed_paths,
                    directories, subdomains, waiting, results, started,
                    robots_outcome, throttled, prev >>

\* poll after the response: process_url returns its links, queue.next() yields them
PollFetched ==
    /\ pc = "next"
    /\ ready # <<>>
    /\ Head(ready).st = "fetched"
    /\ LET t == Head(ready)
           html_content == fetch_url(t.url)
           found == IF html_content.some
                    THEN extract_links(html_content.val, t.url)
                    ELSE {}
       IN /\ ready' = Tail(ready)
          /\ IF CrawlDepth < max_depth /\ found # {}
             THEN /\ pc' = "loop"
                  /\ next_urls' = found
                  /\ cur_chain' = t.chain
             ELSE /\ pc' = "next"
                  /\ next_urls' = {}
                  /\ cur_chain' = 0
    /\ UNCHANGED << held, unit, args, base_url, base_domain, disallowed_paths, visited_urls,
                    directories, subdomains, waiting, results, started,
                    robots_outcome, throttled, prev >>

\* a link may still be admitted: not visited and allowed
Eligible(url) == url \notin visited_urls /\ is_allowed(url)

\* one iteration of the for loop that pushes the link (any iteration order)
LoopAdmit ==
    /\ pc = "loop"
    /\ \E url \in next_urls :
          /\ Eligible(url)
          /\ Guards("dispatcher", admission_guards(url))
          /\ ready' = Append(ready, Task(url, CrawlDepth + 1, cur_chain + 1))
          /\ IF queue_len + 1 >= concurrency
             THEN \* break
                  /\ next_urls' = {}
                  /\ pc' = "next"
                  /\ cur_chain' = 0
                  /\ throttled' = throttled \cup
                        { u \in next_urls \ {url} :
                             Eligible(u) /\ cur_chain + 1 <= max_depth }
             ELSE /\ next_urls' = next_urls \ {url}
                  /\ pc' = IF next_urls' = {} THEN "next" ELSE "loop"
                  /\ cur_chain' = IF next_urls' = {} THEN 0 ELSE cur_chain
                  /\ UNCHANGED throttled
    /\ UNCHANGED << unit, args, base_url, base_domain, disallowed_paths, visited_urls,
                    directories, subdomains, waiting, results, started,
                    robots_outcome, prev >>

\* one iteration of the for loop that passes over a visited or disallowed link
LoopSkip ==
    /\ pc = "loop"
    /\ \E url \in next_urls :
          /\ ~Eligible(url)
          /\ Guards("dispatcher", admission_guards(url))
          /\ next_urls' = next_urls \ {url}
    /\ pc' = IF next_urls' = {} THEN "next" ELSE "loop"
    /\ cur_chain' = IF next_urls' = {} THEN 0 ELSE cur_chain
    /\ UNCHANGED << unit, args, base_url, base_domain, disallowed_paths, visited_urls,
                    directories, subdomains, ready, waiting, results, started,
                    robots_outcome, throttled, prev >>

\* environment: the timer of a sleeping future fires and wakes it
TimerFires ==
    /\ \E t \in BagToSet(waiting) :
          /\ t.st = "sleeping"
          /\ waiting' = waiting (-) SetToBag({t})
          /\ ready' = Append(ready, [t EXCEPT !.st = "delayed"])
    /\ UNCHANGED << held, unit, args, base_url, base_domain, disallowed_paths, visited_urls,
                    directories, subdomains, pc, next_urls, results, started,
                    robots_outcome, cur_chain, throttled, prev >>

\* environment: the response (or the error) of a fetch arrives and wakes the future
FetchCompletes ==
    /\ \E t \in BagToSet(waiting) :
          /\ t.st = "fetching"
          /\ waiting' = waiting (-) SetToBag({t})
          /\ ready' = Append(ready, [t EXCEPT !.st = "fetched"])
    /\ UNCHANGED << held, unit, args, base_url, base_domain, disallowed_paths, visited_urls,
                    directories, subdomains, pc, next_urls, results, started,
                    robots_outcome, cur_chain, throttled, prev >>

Next ==
    \/ New
    \/ ParseRobots
    \/ CrawlStart
    \/ NextNone
    \/ PollNew
    \/ PollDelayed
    \/ PollFetched
    \/ LoopAdmit
    \/ LoopSkip
    \/ TimerFires
    \/ FetchCompletes

Spec == Init /\ [][Next]_vars

\* a second run of the program with the same arguments, the same site and the same
\* robots policy: a fresh SilentCrawler, the first run's Results kept for comparison
Restart ==
    /\ pc = "done"
    /\ ~prev.some
    /\ prev' = results
    /\ pc' = "crawl"
    /\ visited_urls' = {}
    /\ directories' = {}
    /\ subdomains' = {}
    /\ results' = None
    /\ started' = EmptyBag
    /\ throttled' = {}
    /\ UNCHANGED << held, unit, args, base_url, base_domain, disallowed_paths, ready, waiting,
                    next_urls, robots_outcome, cur_chain >>

NextTwoRuns == Next \/ Restart

\* two runs in sequence
SpecTwoRuns == Init /\ [][NextTwoRuns]_vars

\* every enabled step is eventually taken: timers fire, responses or errors
\* arrive, and the runtime keeps polling the task that runs crawl
FairSpec == Spec /\ WF_vars(Next)

(* ------------------------------------------------------------------ *)
(* Direct calls of the helpers on a constructed crawler                *)
(* ------------------------------------------------------------------ *)
DirectoryCalls == { [fn |-> "extract_directory", path |-> p] : p \in UnitPaths }

SubdomainCalls == { [fn |-> "extract_subdomain", host |-> h] : h \in UnitHosts }

\* the links of the direct calls of normalize_url: relative and absolute,
\* file-like and directory-like, with and without query and fragment
NormalizeLinks ==
    { <<"/","a">>, <<"/","a",".","h">>, <<"/","a","?","x","=","1">>, <<"/","a",".","h","?","q">>, <<"/","a","#","f">>, <<"/","a",".","h","#","f">>, <<"/","d","/","?","q">>,
      <<"/","a","?","q","#","f">>, <<"/","a","?","#","f">>, <<"/","a","?","v","=","b",".","c">>, <<"x">>, <<"x",".","h","#","f">>, <<"?","q">>, <<"#","f">>, <<>>,
      <<"h","t","t","p",":","/","/","o",".","c","/","p","?","q","#","f">>, <<"h","t","t","p","s",":","/","/","e",".","c">>, <<"h","t","t","p",":","/","/","E",".","C","/","B">>, <<"h","t","t","p",":","/","/">> }

\* the source URLs of the direct calls of normalize_url
NormalizeBases ==
    { <<"h","t","t","p",":","/","/","e",".","c">>, <<"h","t","t","p",":","/","/","e",".","c","/","d","/","x",".","h">>, <<"h","t","t","p","s",":","/","/","b",".","e",".","c","/","p","/","?","k">>, <<"h","t","t","p",":","/","/">> }

\* the source URLs that parse
ParsedBases == { b \in NormalizeBases : Url_parse(b).ok }

NormalizeCalls ==
    { [fn |-> "normalize_url", url |-> u, source_url |-> b, from |-> None] :
        u \in NormalizeLinks, b \in NormalizeBases }

UnitCalls == DirectoryCalls \cup SubdomainCalls \cup NormalizeCalls

\* a crawler constructed for one of the seed hosts, and one call to make
InitUnit ==
    /\ arg_url \in UnitDomains
    /\ max_depth = 0
    /\ concurrency = 1
    /\ respect_robots = FALSE
    /\ html_pages = {}
    /\ base_url = with_scheme(arg_url)
    /\ base_domain = arg_url
    /\ disallowed_paths = {}
    /\ visited_urls = {}
    /\ directories = {}
    /\ subdomains = {}
    /\ pc = "unit"
    /\ ready = <<>>
    /\ waiting = EmptyBag
    /\ next_urls = {}
    /\ results = None
    /\ started = EmptyBag
    /\ robots_outcome = "none"
    /\ cur_chain = 0
    /\ throttled = {}
    /\ prev = None
    /\ held = {}
    /\ call \in UnitCalls
    /\ ret = None

\* every variable of the crawler, which a direct call leaves alone
crawler == << args, base_url, base_domain, disallowed_paths, visited_urls,
              directories, subdomains, pc, ready, waiting, next_urls, results,
              started, robots_outcome, cur_chain, throttled, prev, held >>

CallExtractDirectory ==
    /\ pc = "unit"
    /\ call.fn = "extract_directory"
    /\ ~ret.some
    /\ ret' = Some(extract_directory(<<"h","t","t","p",":","/","/","e",".","c">> \o call.path))
    /\ UNCHANGED << crawler, call >>

CallExtractSubdomain ==
    /\ pc = "unit"
    /\ call.fn = "extract_subdomain"
    /\ ~ret.some
    /\ ret' = Some(extract_subdomain(Http \o call.host \o <<"/","x">>))
    /\ UNCHANGED << crawler, call >>

CallNormalizeUrl ==
    /\ pc = "unit"
    /\ call.fn = "normalize_url"
    /\ ~ret.some
    /\ ret' = Some(normalize_url(call.url, call.source_url))
    /\ UNCHANGED << crawler, call >>

\* the next call normalizes what the last one returned, against any source
CallAgain ==
    /\ pc = "unit"
    /\ call.fn = "normalize_url"
    /\ ~call.from.some
    /\ ret.some
    /\ ret.val.some
    /\ \E anyBase \in ParsedBases :
          call' = [fn |-> "normalize_url", url |-> ret.val.val, source_url |-> anyBase,
                   from |-> Some(<< call.url, call.source_url >>)]
    /\ ret' = None
    /\ UNCHANGED crawler

NextUnit ==
    \/ CallExtractDirectory
    \/ CallExtractSubdomain
    \/ CallNormalizeUrl
    \/ CallAgain

SpecUnit == InitUnit /\ [][NextUnit]_vars

(* ------------------------------------------------------------------ *)
(* Properties                                                          *)
(* ------------------------------------------------------------------ *)
\* the futures in the queue, started or not
Queued == { ready[i] : i \in 1..Len(ready) } \cup BagToSet(waiting)

\* number of futures in the queue that began to run
PendingCount ==
    BagCardinality(waiting) + Cardinality({ i \in 1..Len(ready) : ready[i].st # "new" })

U_root == <<"h","t","t","p",":","/","/","e",".","c","/">>
U_a == <<"h","t","t","p",":","/","/","e",".","c","/","a",".","h">>
U_b == <<"h","t","t","p",":","/","/","b",".","e",".","c","/","p","/">>
U_x == <<"h","t","t","p",":","/","/","e",".","c","/","d","/","x",".","h">>

\* URL strings on which the filters are evaluated
KnownUrls ==
    { base_url, U_root, U_a, U_b, U_x, <<"h","t","t","p",":","/","/","o",".","c","/","x","/">>, <<"h","t","t","p",":","/","/","x","e",".","c","/">>,
      <<"h","t","t","p",":","/","/","e",".","c","/","a",".","h","?","q">>, <<"h","t","t","p",":","/","/","e",".","c","/","d","/">> }

\* C1: no URL string has process_url started for it more than once.
NoDuplicateAdmission ==
    \A u \in BagToSet(started) : CopiesIn(u, started) <= 1

\* C2: every future in the queue, hence every admitted URL, is at most max_depth
\* links away from the seed.
DepthBound ==
    \A t \in Queued : t.chain <= max_depth

\* C3: the number of admitted URLs whose task is pending never exceeds the
\* concurrency argument, whatever its value.
GlobalConcurrencyCap ==
    PendingCount <= concurrency

\* C4: once crawl is called it eventually returns; it returns only with an empty
\* queue and nothing left to iterate, and with an empty queue its next step is
\* to return (also when the seed was not pushed).
Termination ==
    /\ (pc = "crawl") ~> (pc = "done")
    /\ [](pc = "done" => queue_len = 0 /\ next_urls = {})
    /\ [][(pc = "next" /\ queue_len = 0) => pc' = "done"]_vars

TerminationWitness ==
    pc = "done" /\ Cardinality(visited_urls) >= 4

\* C5: at the return of crawl, every eligible link the throttle passed over
\* has been visited.
ThrottledNotLost ==
    pc = "done" => throttled \subseteq visited_urls

\* C6: every visited or queued URL has the seed's host or a host that ends
\* with "." followed by the seed's host.
ScopeContainment ==
    \A u \in visited_urls \cup { t.url : t \in Queued } :
        LET host == UrlParse(u).host
            seed_host == UrlParse(base_url).host
        IN /\ UrlParse(u).ok
           /\ \/ host = seed_host
              \/ /\ Len(host) > Len(seed_host)
                 /\ SubSeq(host, Len(host) - Len(seed_host), Len(host))
                       = <<".">> \o seed_host

ScopeContainmentWitness ==
    pc = "done" /\ U_b \in visited_urls /\ <<<<"e",".","c">>, <<"/">>>> \in html_pages

\* C7: with robots enforcement on, no visited or queued URL has a path that
\* starts with a disallowed prefix; with enforcement off, is_allowed holds of
\* every URL.
RobotsEnforcement ==
    /\ respect_robots =>
          \A u \in visited_urls \cup { t.url : t \in Queued } :
              \A d \in disallowed_paths :
                  LET path == UrlParse(u).path
                  IN ~(Len(d) <= Len(path) /\ \A i \in 1..Len(d) : path[i] = d[i])
    /\ ~respect_robots => \A u \in KnownUrls : is_allowed(u)

RobotsEnforcementWitness ==
    /\ pc = "done"
    /\ respect_robots
    /\ <<"/","a">> \in disallowed_paths
    /\ U_b \in visited_urls

\* C8: a second run with the same arguments, site and robots policy returns
\* the Results of the first.
DeterministicOutput ==
    (pc = "done" /\ prev.some) => results = prev

\* C9 as stated: when no fetch yields content, the three result sequences
\* are empty.
EmptyResultsWhenNoContent ==
    (pc = "done" /\ html_pages = {}) =>
        /\ results.val.urls = <<>>
        /\ results.val.directories = <<>>
        /\ results.val.subdomains = <<>>

\* C9 as amended: when no fetch yields content, crawl returns the seed alone
\* (nothing when robots disallows it), the seed's directory when it has one,
\* and no subdomain.
SeedOnlyWhenNoContent ==
    (pc = "done" /\ html_pages = {}) =>
        LET admitted == \A d \in disallowed_paths :
                            ~starts_with(UrlParse(base_url).path, d)
            path == UrlParse(base_url).path
        IN /\ results.val.urls = IF admitted THEN <<base_url>> ELSE <<>>
           /\ results.val.subdomains = <<>>
           /\ results.val.directories =
                 IF admitted /\ path = <<"/","d","/","x",".","h">> THEN << <<"/","d","/">> >> ELSE <<>>

SeedOnlyWhenNoContentWitness ==
    /\ pc = "done"
    /\ html_pages = {}
    /\ results.val.urls = << <<"h","t","t","p",":","/","/","e",".","c","/","d","/","x",".","h">> >>

\* C10: after a failed robots.txt request construction has not failed, no path
\* is disallowed and is_allowed holds of every URL, for the rest of the run.
RobotsFailOpen ==
    robots_outcome \in {"err", "status", "body_err"} =>
        /\ pc # "failed"
        /\ disallowed_paths = {}
        /\ \A u \in KnownUrls : is_allowed(u)

RobotsFailOpenWitness ==
    /\ robots_outcome = "status"
    /\ pc = "done"
    /\ Cardinality(visited_urls) >= 4

\* C11: in the end-to-end scenario /deep.html is never fetched, and crawl
\* returns the three urls of the scenario and the subdomain blog.
ScenarioResults ==
    Scenario =>
        /\ <<"h","t","t","p",":","/","/","e","x","a","m","p","l","e",".","c","o","m","/","d","e","e","p",".","h","t","m","l">> \notin BagToSet(started)
        /\ pc = "done" =>
              /\ results.val.urls = << <<"h","t","t","p",":","/","/","b","l","o","g",".","e","x","a","m","p","l","e",".","c","o","m","/","p","o","s","t">>,
                                       <<"h","t","t","p",":","/","/","e","x","a","m","p","l","e",".","c","o","m","/">>,
                                       <<"h","t","t","p",":","/","/","e","x","a","m","p","l","e",".","c","o","m","/","a","b","o","u","t",".","h","t","m","l">> >>
              /\ results.val.subdomains = << <<"b","l","o","g">> >>
              /\ \A i \in 1..Len(results.val.directories) :
                    results.val.directories[i] # <<"/","d","e","e","p",".","h","t","m","l">>

\* a is before b in lexicographic, case-sensitive byte order
LexBefore(a, b) ==
    \E k \in 1..(Len(b)) :
        /\ k - 1 <= Len(a)
        /\ \A i \in 1..(k - 1) : a[i] = b[i]
        /\ \/ k > Len(a)
           \/ Ascii(a[k]) < Ascii(b[k])

\* seq is strictly increasing and has exactly the elements of S
SortedSeqOf(seq, S) ==
    /\ \A i \in 1..Len(seq) : \A j \in (i + 1)..Len(seq) : LexBefore(seq[i], seq[j])
    /\ { seq[i] : i \in 1..Len(seq) } = S

\* C12: each of the three sequences crawl returns is strictly increasing in
\* byte order, without duplicate, and holds exactly the elements of its set.
SortedResults ==
    pc = "done" =>
        /\ SortedSeqOf(results.val.urls, visited_urls)
        /\ SortedSeqOf(results.val.directories, directories)
        /\ SortedSeqOf(results.val.subdomains, subdomains)

SortedResultsWitness ==
    /\ pc = "done"
    /\ <<"h","t","t","p",":","/","/","e",".","c","/","Z",".","h">> \in visited_urls
    /\ <<"h","t","t","p",":","/","/","e",".","c","/","a",".","h">> \in visited_urls
    /\ Len(results.val.directories) >= 2
    /\ Len(results.val.subdomains) >= 1

\* the directory the documentation derives from a path
DirectoryOf(p) ==
    LET slashes == { i \in 1..Len(p) : p[i] = "/" }
        last == CHOOSE i \in slashes : \A j \in slashes : j <= i
    IN IF p = <<>> \/ p = <<"/">> THEN None
       ELSE IF p[Len(p)] = "/" THEN Some(p)
       ELSE IF slashes # {} /\ last # 1 THEN Some([i \in 1..last |-> p[i]])
       ELSE None

\* C13: extract_directory yields none for the empty path and for "/", the
\* path itself when it ends in "/", else the path cut after its last "/"
\* unless that slash is the leading one.
DirectoryDerivation ==
    (ret.some /\ call.fn = "extract_directory") => ret.val = DirectoryOf(call.path)

DirectoryDerivationWitness ==
    /\ ret.some
    /\ call = [fn |-> "extract_directory", path |-> <<"/","a","/","b","/","c",".","h","t","m","l">>]
    /\ ret.val = Some(<<"/","a","/","b","/">>)

\* the part of host before "." and seed, when host is below seed
SubdomainOf(host, seed) ==
    LET cuts == { k \in 0..Len(host) : SubSeq(host, k + 1, Len(host)) = <<".">> \o seed }
    IN IF host # seed /\ cuts # {}
       THEN Some(SubSeq(host, 1, CHOOSE k \in cuts : TRUE))
       ELSE None

\* C14: extract_subdomain yields none when the host is the seed host or is
\* not below it, and otherwise the host without "." and the seed host.
SubdomainDerivation ==
    (ret.some /\ call.fn = "extract_subdomain") =>
        /\ ret.val = SubdomainOf(call.host, base_domain)
        /\ (base_domain = <<"e","x","a","m","p","l","e",".","c","o","m">> /\ call.host = <<"e","x","a","m","p","l","e",".","c","o","m">>) => ret.val = None
        /\ (base_domain = <<"e","x","a","m","p","l","e",".","c","o","m">> /\ call.host = <<"b","l","o","g",".","e","x","a","m","p","l","e",".","c","o","m">>)
               => ret.val = Some(<<"b","l","o","g">>)

SubdomainDerivationWitness ==
    /\ ret.some
    /\ base_domain = <<"e","x","a","m","p","l","e",".","c","o","m">>
    /\ call = [fn |-> "extract_subdomain", host |-> <<"b","l","o","g",".","e","x","a","m","p","l","e",".","c","o","m">>]
    /\ ret.val = Some(<<"b","l","o","g">>)

\* C15: what normalize_url returns, normalize_url returns unchanged, against
\* every source URL that parses; so with a query or a fragment in the link.
NormalizationIdempotence ==
    (call.fn = "normalize_url" /\ call.from.some /\ ret.some) => ret.val = Some(call.url)

NormalizationIdempotenceWitness ==
    /\ call.fn = "normalize_url"
    /\ call.from = Some(<< <<"/","a","?","q","#","f">>, <<"h","t","t","p",":","/","/","e",".","c","/","d","/","x",".","h">> >>)
    /\ call.source_url = <<"h","t","t","p","s",":","/","/","b",".","e",".","c","/","p","/","?","k">>
    /\ ret = Some(Some(<<"h","t","t","p",":","/","/","e",".","c","/","a","?","q","/">>))

\* C16: no future of the queue has a URL that is still absent from visited_urls
\* while the for loop can run its admission check on that same URL.
AtomicAdmission ==
    \A t \in Queued :
        (t.st = "new" /\ t.url \notin visited_urls) =>
            ~(pc = "loop" /\ t.url \in next_urls /\ Eligible(t.url))

\* C17: between the steps of the futures and at the end, directories holds
\* exactly the directories of the visited URLs that have one, and subdomains
\* exactly their subdomains, whether or not their fetch gave a page.
SideEffectsFollowAdmission ==
    /\ directories = { extract_directory(u).val :
                         u \in { v \in visited_urls : extract_directory(v).some } }
    /\ subdomains = { extract_subdomain(u).val :
                        u \in { v \in visited_urls : extract_subdomain(v).some } }

SideEffectsFollowAdmissionWitness ==
    /\ pc = "done"
    /\ U_b \in visited_urls
    /\ ~fetch_url(U_b).some
    /\ directories = { <<"/","p","/">> }
    /\ subdomains = { <<"b">> }

\* a URL string without fragment that ends in "/" when the last segment of
\* its path has no "."
IsCrawlTarget(u) ==
    /\ ~contains(u, "#")
    /\ UrlParse(u).ok
    /\ ~contains(split_last(UrlParse(u).path), ".") => u[Len(u)] = "/"

\* C18: every URL in visited_urls, the seed included, has no fragment and
\* ends in "/" when the last segment of its path has no file extension.
VisitedNormalized ==
    \A u \in visited_urls : IsCrawlTarget(u)

\* C19: while a future is suspended in the sleep or in the fetch, neither it
\* nor the dispatcher holds a guard of any of the four mutexes.
NoLockAcrossSuspension ==
    \A t \in BagToSet(waiting) :
        \A g \in held : g[1] \notin { t.url, "dispatcher" }

NoLockAcrossSuspensionWitness ==
    /\ respect_robots
    /\ pc = "loop"
    /\ \E t \in BagToSet(waiting) : t.st = "fetching"
    /\ \E url \in next_urls : Eligible(url)
    /\ held = {}

\* C20: every step leaves in visited_urls, directories and subdomains all
\* they held before it.
MonotonicGrowth ==
    [][/\ visited_urls \subseteq visited_urls'
       /\ directories \subseteq directories'
       /\ subdomains \subseteq subdomains']_vars

MonotonicGrowthWitness ==
    /\ pc = "next"
    /\ Cardinality(visited_urls) >= 3
    /\ directories # {}
    /\ subdomains # {}
    /\ \E t \in Queued : t.st = "fetched"

====
